---- MODULE Spec2Model ----
(***************************************************************************)
(* Model of tools/scripts/compute_fan_delays.py: the bisection that        *)
(* inverts P(alpha) = 1 - alpha/pi + sin(2 alpha)/(2 pi), the conversion   *)
(* of the angle to a clamped integer delay, and the two table generators.  *)
(*                                                                         *)
(* Numbers.  A Python float is modelled by a binary fixed-point number     *)
(* with 52 fractional bits, held as five limbs <<f1, f2, f3, f4, n>> of    *)
(* value n + f4/Base + f3/Base^2 + f2/Base^3 + f1/Base^4, the four         *)
(* fractional limbs in 0..Base-1 and n any integer (negative for negative  *)
(* numbers).  Every operation is exact or rounds toward minus infinity.    *)
(*                                                                         *)
(* Angles.  An angle is measured in units of pi radians, so math.pi is the *)
(* number One and alpha/math.pi is alpha; Sin converts to radians.         *)
(***************************************************************************)
EXTENDS Integers, Sequences

Base == 8192

Norm(x) ==
    LET t2 == x[2] + (x[1] \div Base)
        t3 == x[3] + (t2 \div Base)
        t4 == x[4] + (t3 \div Base)
        t5 == x[5] + (t4 \div Base)
    IN  <<x[1] % Base, t2 % Base, t3 % Base, t4 % Base, t5>>

FromInt(n) == <<0, 0, 0, 0, n>>

Zero == FromInt(0)

One == FromInt(1)

Add(a, b) == Norm(<<a[1] + b[1], a[2] + b[2], a[3] + b[3], a[4] + b[4], a[5] + b[5]>>)

Sub(a, b) == Norm(<<a[1] - b[1], a[2] - b[2], a[3] - b[3], a[4] - b[4], a[5] - b[5]>>)

Neg(a) == Sub(Zero, a)

Less(a, b) == Sub(a, b)[5] < 0

Leq(a, b) == ~Less(b, a)

\* floor(a * b), by columns of limb products
Mul(a, b) ==
    LET c0 == a[1] * b[1]
        c1 == a[1] * b[2] + a[2] * b[1]
        c2 == a[1] * b[3] + a[2] * b[2] + a[3] * b[1]
        c3 == a[1] * b[4] + a[2] * b[3] + a[3] * b[2] + a[4] * b[1]
        c4 == a[1] * b[5] + a[2] * b[4] + a[3] * b[3] + a[4] * b[2] + a[5] * b[1]
        c5 == a[2] * b[5] + a[3] * b[4] + a[4] * b[3] + a[5] * b[2]
        c6 == a[3] * b[5] + a[4] * b[4] + a[5] * b[3]
        c7 == a[4] * b[5] + a[5] * b[4]
        c8 == a[5] * b[5]
        k0 == c0 \div Base
        k1 == (c1 + k0) \div Base
        k2 == (c2 + k1) \div Base
        k3 == (c3 + k2) \div Base
    IN  Norm(<<c4 + k3, c5, c6, c7, c8>>)

\* a * n for an integer n
MulInt(a, n) == Norm(<<a[1] * n, a[2] * n, a[3] * n, a[4] * n, a[5] * n>>)

\* floor(a / n) for an integer n > 0
DivInt(a, n) ==
    LET d4 == (a[5] % n) * Base + a[4]
        d3 == (d4 % n) * Base + a[3]
        d2 == (d3 % n) * Base + a[2]
        d1 == (d2 % n) * Base + a[1]
    IN  <<d1 \div n, d2 \div n, d3 \div n, d4 \div n, a[5] \div n>>

\* round(): to the nearest integer, a tie to the even one
Round(a) ==
    LET half == <<0, 0, 0, Base \div 2>>
        frac == <<a[1], a[2], a[3], a[4]>>
        above == \/ a[4] > half[4]
                 \/ a[4] = half[4] /\ (a[1] > 0 \/ a[2] > 0 \/ a[3] > 0)
    IN  IF frac = half
        THEN (IF a[5] % 2 = 0 THEN a[5] ELSE a[5] + 1)
        ELSE IF above THEN a[5] + 1 ELSE a[5]

\* pi and 1/(2 pi) to 52 fractional bits
PiRad == <<6704, 1090, 7594, 1159, 3>>

Inv2Pi == <<6416, 3529, 6531, 1303, 0>>

SinTerms == 10

\* The Taylor series of sin(th)/th in Horner form,
\* 1 - th^2/(2*3) * (1 - th^2/(4*5) * (1 - ...)); each partial result is
\* evaluated before the next step uses it
RECURSIVE Horner(_, _, _)
Horner(th2, k, s) ==
    IF k = 0 THEN s
    ELSE CHOOSE r \in {Horner(th2, k - 1, v) :
                          v \in {Sub(One, DivInt(Mul(th2, s), (2 * k) * (2 * k + 1)))}} : TRUE

\* sin(th) for th in [0, pi/2] radians
SinQ(th) == CHOOSE r \in {Mul(th, Horner(t2, SinTerms, One)) : t2 \in {Mul(th, th)}} : TRUE

\* math.sin(x) for an angle x in [0, 2] (units of pi), reduced to a quadrant
Sin(x) ==
    LET half == DivInt(One, 2)
        two == FromInt(2)
    IN  IF Leq(x, half) THEN SinQ(Mul(x, PiRad))
        ELSE IF Leq(x, One) THEN SinQ(Mul(Sub(One, x), PiRad))
        ELSE IF Leq(x, Add(One, half)) THEN Neg(SinQ(Mul(Sub(x, One), PiRad)))
        ELSE Neg(SinQ(Mul(Sub(two, x), PiRad)))

P_of_alpha(alpha) == Add(Sub(One, alpha), Mul(Sin(MulInt(alpha, 2)), Inv2Pi))

\* n/d as a number (for d > 0), the way a decimal literal is read
Ratio(n, d) == DivInt(FromInt(n), d)

(***************************************************************************)
(* Module constants of the script                                          *)
(***************************************************************************)
HALF_CYCLE_US == FromInt(10000)

MIN_DELAY_US == 50

MAX_DELAY_US == 9500

N == 9

MIN_P == Ratio(5, 100)

Iterations == 50

PercentEntries == 101

PI == One

\* the four argparse.Namespace objects generate_all() passes to main();
\* half_cycle_us is <<>> for None and <<h>> for an explicit value
Runs ==
    << [freq |-> 50, half_cycle_us |-> <<>>, include_off |-> FALSE],
       [freq |-> 50, half_cycle_us |-> <<>>, include_off |-> TRUE],
       [freq |-> 60, half_cycle_us |-> <<>>, include_off |-> FALSE],
       [freq |-> 60, half_cycle_us |-> <<>>, include_off |-> TRUE] >>

(***************************************************************************)
(* Inputs of the direct calls                                              *)
(***************************************************************************)
MaxLevels == 5

LevelCounts == (0 - 1)..MaxLevels

\* 1 - 2^-20: a level of this power has a delay of 52 us at 10000.0 us
AlmostOne == Sub(One, DivInt(DivInt(One, 1024), 1024))

MinPowers ==
    {Ratio(0 - 1, 2), Zero, MIN_P, Ratio(1, 2), AlmostOne, One, Ratio(3, 2)}

HalfCycles ==
    {FromInt(0 - 10000), Zero, Ratio(199, 2), Ratio(1000000, 120),
     HALF_CYCLE_US, Ratio(38001, 2)}

VARIABLES
    entry,          \* the function the behaviour calls
    levels, min_power, half_cycle_us,   \* arguments of the table generators
    pc,             \* position in the code
    level,          \* loop variable of compute_delays
    percent,        \* loop variable of format_delay_from_percent_array
    P, lo, hi, iter,    \* frame of alpha_from_P
    alpha,          \* the angle alpha_from_P returned
    delays,         \* list built by compute_delays
    vals,           \* list built by format_delay_from_percent_array
    run,            \* index of the main() call generate_all is at
    files           \* what main() has written, one record per call

vars ==
    <<entry, levels, min_power, half_cycle_us, pc, level, percent,
      P, lo, hi, iter, alpha, delays, vals, run, files>>

solver == <<P, lo, hi, iter, alpha>>

\* main(): the effective half cycle in microseconds
HalfCycleOf(args) ==
    IF Len(args.half_cycle_us) > 0 THEN args.half_cycle_us[1]
    ELSE DivInt(FromInt(1000000), 2 * args.freq)

\* LevelPower with the step counted from level instead of level - 1
LevelPowerOffByOne(lv) ==
    Add(min_power, MulInt(DivInt(Sub(One, min_power), levels - 1), lv))

\* LevelPower with the levels indexed from the top
LevelPowerDescending(lv) ==
    Add(min_power, MulInt(DivInt(Sub(One, min_power), levels - 1), levels - lv))

\* compute_delays: the target power of a level
LevelPower(lv) ==
    Add(min_power, MulInt(DivInt(Sub(One, min_power), levels - 1), lv - 1))

\* LevelDelay without the clamp to MAX_DELAY_US
LevelDelayNoMax(a, h) ==
    LET delay_us == Mul(a, h)
    IN  Round(IF Less(delay_us, FromInt(MIN_DELAY_US))
              THEN FromInt(MIN_DELAY_US) ELSE delay_us)

\* LevelDelay with int() in the place of round()
LevelDelayTrunc(a, h) ==
    LET delay_us == Mul(a, h)
        atLeast == IF Less(delay_us, FromInt(MIN_DELAY_US))
                   THEN FromInt(MIN_DELAY_US) ELSE delay_us
        atMost == IF Less(FromInt(MAX_DELAY_US), atLeast)
                  THEN FromInt(MAX_DELAY_US) ELSE atLeast
    IN  atMost[5]

\* compute_delays: alpha to delay, clamped as a float and then rounded
LevelDelay(a, h) ==
    LET delay_us == Mul(a, h)
        atLeast == IF Less(delay_us, FromInt(MIN_DELAY_US))
                   THEN FromInt(MIN_DELAY_US) ELSE delay_us
        atMost == IF Less(FromInt(MAX_DELAY_US), atLeast)
                  THEN FromInt(MAX_DELAY_US) ELSE atLeast
    IN  Round(atMost)

\* PercentDelay without the clamp to MAX_DELAY_US
PercentDelayNoMax(a, h) ==
    LET delay_us == Round(Mul(a, h))
    IN  IF delay_us < MIN_DELAY_US THEN MIN_DELAY_US ELSE delay_us

\* PercentDelay reading the module's HALF_CYCLE_US in the place of its argument
PercentDelayGlobal(a, h) ==
    LET delay_us == Round(Mul(a, HALF_CYCLE_US))
        atLeast == IF delay_us < MIN_DELAY_US THEN MIN_DELAY_US ELSE delay_us
    IN  IF atLeast > MAX_DELAY_US THEN MAX_DELAY_US ELSE atLeast

\* format_delay_from_percent_array: alpha to delay, rounded and then clamped
PercentDelay(a, h) ==
    LET delay_us == Round(Mul(a, h))
        atLeast == IF delay_us < MIN_DELAY_US THEN MIN_DELAY_US ELSE delay_us
    IN  IF atLeast > MAX_DELAY_US THEN MAX_DELAY_US ELSE atLeast

\* format_c_array: the FAN_DELAY_US array, with the OFF entry when asked
CArray(d, include_off) == IF include_off THEN <<0>> \o d ELSE d

Idle ==
    /\ level = 1 /\ percent = 0
    /\ P = Zero /\ lo = Zero /\ hi = PI /\ iter = 0 /\ alpha = Zero
    /\ delays = <<>> /\ vals = <<>>
    /\ run = 1 /\ files = <<>>

Init ==
    /\ Idle
    /\ \/ /\ entry = "compute_delays"
          /\ levels \in LevelCounts
          /\ min_power \in MinPowers
          /\ half_cycle_us \in HalfCycles
          /\ pc = "cd_loop"
       \/ /\ entry = "format_delay_from_percent_array"
          /\ levels = N /\ min_power = MIN_P
          /\ half_cycle_us \in HalfCycles
          /\ pc = "pt_loop"
       \/ /\ entry = "generate_all"
          /\ levels = N /\ min_power = MIN_P
          /\ half_cycle_us = HALF_CYCLE_US
          /\ pc = "main"

\* main(): lines 46-54, up to the call of compute_delays
MainBegin ==
    /\ pc = "main"
    /\ half_cycle_us' = HalfCycleOf(Runs[run])
    /\ levels' = N
    /\ min_power' = MIN_P
    /\ pc' = "cd_loop"
    /\ UNCHANGED <<entry, level, percent, solver, delays, vals, run, files>>

\* compute_delays: the loop head, the level's power and the call of
\* alpha_from_P; (1.0 - min_power) / 0 raises ZeroDivisionError
LevelBegin ==
    /\ pc = "cd_loop"
    /\ level <= levels
    /\ IF levels - 1 = 0
       THEN /\ pc' = "raised"
            /\ UNCHANGED solver
       ELSE /\ P' = LevelPower(level)
            /\ lo' = Zero
            /\ hi' = PI
            /\ iter' = 0
            /\ pc' = "cd_bisect"
            /\ UNCHANGED alpha
    /\ UNCHANGED <<entry, levels, min_power, half_cycle_us, level, percent,
                   delays, vals, run, files>>

\* BisectStep with the comparison turned around (p_mid < P)
BisectStepSwapped ==
    /\ pc \in {"cd_bisect", "pt_bisect"}
    /\ iter < Iterations
    /\ LET mid == DivInt(Add(lo, hi), 2)
           p_mid == P_of_alpha(mid)
       IN  IF Less(p_mid, P)
           THEN lo' = mid /\ hi' = hi
           ELSE hi' = mid /\ lo' = lo
    /\ iter' = iter + 1
    /\ UNCHANGED <<entry, levels, min_power, half_cycle_us, pc, level, percent,
                   P, alpha, delays, vals, run, files>>

\* alpha_from_P: one iteration of the loop
BisectStep ==
    /\ pc \in {"cd_bisect", "pt_bisect"}
    /\ iter < Iterations
    /\ LET mid == DivInt(Add(lo, hi), 2)
           p_mid == P_of_alpha(mid)
       IN  IF Less(P, p_mid)
           THEN lo' = mid /\ hi' = hi
           ELSE hi' = mid /\ lo' = lo
    /\ iter' = iter + 1
    /\ UNCHANGED <<entry, levels, min_power, half_cycle_us, pc, level, percent,
                   P, alpha, delays, vals, run, files>>

\* BisectReturn returning lo in the place of (lo+hi)/2.0
BisectReturnLo ==
    /\ pc \in {"cd_bisect", "pt_bisect"}
    /\ iter = Iterations
    /\ alpha' = lo
    /\ pc' = IF pc = "cd_bisect" THEN "cd_convert" ELSE "pt_convert"
    /\ UNCHANGED <<entry, levels, min_power, half_cycle_us, level, percent,
                   P, lo, hi, iter, delays, vals, run, files>>

\* alpha_from_P: the loop is over, return (lo+hi)/2.0
BisectReturn ==
    /\ pc \in {"cd_bisect", "pt_bisect"}
    /\ iter = Iterations
    /\ alpha' = DivInt(Add(lo, hi), 2)
    /\ pc' = IF pc = "cd_bisect" THEN "cd_convert" ELSE "pt_convert"
    /\ UNCHANGED <<entry, levels, min_power, half_cycle_us, level, percent,
                   P, lo, hi, iter, delays, vals, run, files>>

\* compute_delays: lines 80-86
LevelEnd ==
    /\ pc = "cd_convert"
    /\ delays' = Append(delays, LevelDelay(alpha, half_cycle_us))
    /\ level' = level + 1
    /\ pc' = "cd_loop"
    /\ UNCHANGED <<entry, levels, min_power, half_cycle_us, percent, solver,
                   vals, run, files>>

\* compute_delays returns; main() goes on to format_output, which ends
\* with format_delay_from_percent_array(half_cycle_us)
ComputeDelaysReturn ==
    /\ pc = "cd_loop"
    /\ level > levels
    /\ IF entry = "generate_all"
       THEN /\ vals' = <<>>
            /\ percent' = 0
            /\ pc' = "pt_loop"
       ELSE /\ pc' = "done"
            /\ UNCHANGED <<vals, percent>>
    /\ UNCHANGED <<entry, levels, min_power, half_cycle_us, level, solver,
                   delays, run, files>>

\* format_delay_from_percent_array: the loop head and alpha_from_P(P / 100.0)
PercentBegin ==
    /\ pc = "pt_loop"
    /\ percent < PercentEntries
    /\ P' = Ratio(percent, 100)
    /\ lo' = Zero
    /\ hi' = PI
    /\ iter' = 0
    /\ pc' = "pt_bisect"
    /\ UNCHANGED <<entry, levels, min_power, half_cycle_us, level, percent,
                   alpha, delays, vals, run, files>>

\* format_delay_from_percent_array: lines 148-153
PercentEnd ==
    /\ pc = "pt_convert"
    /\ vals' = Append(vals, PercentDelay(alpha, half_cycle_us))
    /\ percent' = percent + 1
    /\ pc' = "pt_loop"
    /\ UNCHANGED <<entry, levels, min_power, half_cycle_us, level, solver,
                   delays, run, files>>

\* format_delay_from_percent_array returns; main() writes the file and
\* returns (its locals and those of the functions it called are gone), and
\* generate_all goes on to its next call of main()
PercentReturn ==
    /\ pc = "pt_loop"
    /\ percent = PercentEntries
    /\ IF entry = "generate_all"
       THEN /\ files' = Append(files,
                   [freq |-> Runs[run].freq,
                    include_off |-> Runs[run].include_off,
                    half_cycle_us |-> half_cycle_us,
                    delays |-> delays,
                    c_array |-> CArray(delays, Runs[run].include_off),
                    percent_array |-> vals])
            /\ delays' = <<>> /\ level' = 1
            /\ vals' = <<>> /\ percent' = 0
            /\ IF run < Len(Runs)
               THEN run' = run + 1 /\ pc' = "main"
               ELSE run' = run /\ pc' = "done"
       ELSE /\ pc' = "done"
            /\ UNCHANGED <<run, files, delays, level, vals, percent>>
    /\ UNCHANGED <<entry, levels, min_power, half_cycle_us, solver>>

Next ==
    \/ MainBegin
    \/ LevelBegin
    \/ BisectStep
    \/ BisectReturn
    \/ LevelEnd
    \/ ComputeDelaysReturn
    \/ PercentBegin
    \/ PercentEnd
    \/ PercentReturn

Spec == Init /\ [][Next]_vars

(***************************************************************************)
(* Definitions shared by the properties                                    *)
(***************************************************************************)
Bisecting == pc \in {"cd_bisect", "pt_bisect"}

Converting == pc \in {"cd_convert", "pt_convert"}

\* compute_delays has returned its list to its caller
TableReturned ==
    \/ entry = "compute_delays" /\ pc = "done"
    \/ entry = "generate_all" /\ pc \in {"pt_loop", "pt_bisect", "pt_convert"}

ValidLevels == levels >= 2

ValidMinPower == Leq(Zero, min_power) /\ Less(min_power, One)

ValidHalfCycle == Less(Zero, half_cycle_us)

PowerInRange == Leq(Zero, P) /\ Leq(P, One)

InRange(s) == \A i \in 1..Len(s) : s[i] \in MIN_DELAY_US..MAX_DELAY_US

\* the half cycles generate_all() hands to the table generators
H50 == HalfCycleOf(Runs[1])

H60 == HalfCycleOf(Runs[3])

ToolHalfCycles == {HalfCycleOf(Runs[r]) : r \in 1..Len(Runs)}

Abs(n) == IF n < 0 THEN 0 - n ELSE n

\* x halved k times
RECURSIVE HalveN(_, _)
HalveN(x, k) ==
    IF k = 0 THEN x
    ELSE CHOOSE r \in {HalveN(v, k - 1) : v \in {DivInt(x, 2)}} : TRUE

(***************************************************************************)
(* C6: round trip of the angle solver.  For a target power P in [0,1] the  *)
(* returned alpha lies in the final bracket [lo, hi], whose width is pi    *)
(* halved 50 times and whose ends enclose the root                         *)
(* (P_of_alpha(lo) >= P >= P_of_alpha(hi)), and P_of_alpha(alpha) differs  *)
(* from P by at most Tolerance, twice that width.                          *)
(***************************************************************************)
Tolerance == MulInt(HalveN(PI, Iterations), 2)

C6_RoundTrip ==
    (Converting /\ PowerInRange) =>
        /\ Leq(lo, alpha) /\ Leq(alpha, hi)
        /\ Sub(hi, lo) = HalveN(PI, Iterations)
        /\ Leq(P_of_alpha(hi), P) /\ Leq(P, P_of_alpha(lo))
        /\ Leq(Sub(P_of_alpha(alpha), P), Tolerance)
        /\ Leq(Sub(P, P_of_alpha(alpha)), Tolerance)

C6_Witness ==
    /\ pc = "pt_convert"
    /\ P = Ratio(37, 100)
    /\ Less(Ratio(1, 4), alpha) /\ Less(alpha, Ratio(3, 4))

(***************************************************************************)
(* C1: with levels >= 2, min_power in [0,1) and half_cycle_us > 0, every   *)
(* entry of the list compute_delays builds and of the DELAY_FROM_PERCENT   *)
(* list is an integer in MIN_DELAY_US..MAX_DELAY_US, also when the         *)
(* unclamped alpha*half_cycle_us/pi is outside that range.                 *)
(***************************************************************************)
C1_DelaysInRange ==
    (ValidLevels /\ ValidMinPower /\ ValidHalfCycle) =>
        /\ InRange(delays)
        /\ InRange(vals)
        /\ \A f \in 1..Len(files) :
               InRange(files[f].delays) /\ InRange(files[f].percent_array)

\* an entry was appended whose unclamped value is above MAX_DELAY_US
C1_Witness ==
    /\ ValidLevels /\ ValidMinPower /\ ValidHalfCycle
    /\ pc = "cd_loop"
    /\ Len(delays) >= 1
    /\ Less(FromInt(MAX_DELAY_US), Mul(alpha, half_cycle_us))
    /\ delays[Len(delays)] = MAX_DELAY_US

(***************************************************************************)
(* C2: compute_delays(9, 0.05, 10000.0), the call main() makes at 50 Hz,   *)
(* returns 9 entries; the entry of level 9 is MIN_DELAY_US, the entry of   *)
(* level 1 is below MAX_DELAY_US and above the entry of level 9, and the   *)
(* entries strictly decrease from level 1 to level 9.                      *)
(***************************************************************************)
C2_DefaultTable ==
    (/\ TableReturned
     /\ levels = 9 /\ min_power = Ratio(5, 100) /\ half_cycle_us = FromInt(10000)) =>
        /\ Len(delays) = 9
        /\ delays[9] = 50
        /\ delays[1] < 9500
        /\ delays[1] > delays[9]
        /\ \A i \in 1..8 : delays[i] > delays[i + 1]

C2_Witness ==
    /\ entry = "generate_all" /\ run = 1
    /\ pc = "pt_loop" /\ percent = 0
    /\ half_cycle_us = FromInt(10000)
    /\ Len(delays) = 9

(***************************************************************************)
(* C3: the percent table at the half cycles the tool generates (10000.0    *)
(* and 8333.33 us).  As claimed: 101 entries in ascending percent, entry 0 *)
(* is MAX_DELAY_US and entry 100 is MIN_DELAY_US.                          *)
(***************************************************************************)
PercentTableShape ==
    /\ pc \in {"pt_loop", "pt_bisect", "pt_convert"} => Len(vals) = percent
    /\ percent = PercentEntries => Len(vals) = 101
    /\ Len(vals) >= 101 => vals[101] = MIN_DELAY_US

InPercentTable ==
    /\ entry \in {"format_delay_from_percent_array", "generate_all"}
    /\ half_cycle_us \in ToolHalfCycles

C3_Original ==
    InPercentTable =>
        /\ PercentTableShape
        /\ Len(vals) >= 1 => vals[1] = MAX_DELAY_US

\* C3 as amended: entry 0 is clamped down to MAX_DELAY_US at 10000.0 us only;
\* at 8333.33 us the delay of P=0 is the half cycle rounded, 8333, which is
\* below MAX_DELAY_US and is not clamped
C3_Amended ==
    InPercentTable =>
        /\ PercentTableShape
        /\ Len(vals) >= 1 =>
               vals[1] = (IF half_cycle_us = FromInt(10000) THEN MAX_DELAY_US ELSE 8333)

C3_Witness ==
    /\ entry = "format_delay_from_percent_array"
    /\ pc = "done"
    /\ half_cycle_us = H60
    /\ Len(vals) = 101 /\ vals[1] = 8333 /\ vals[101] = MIN_DELAY_US

(***************************************************************************)
(* C4: a call of compute_delays with levels < 2 never returns a list.      *)
(***************************************************************************)
C4_RejectsFewLevels ==
    (entry = "compute_delays" /\ levels < 2) => pc # "done"

(***************************************************************************)
(* C5: a call with half_cycle_us <= 0, or with min_power outside [0,1)     *)
(* (and a valid number of levels), computes no table entry and returns no  *)
(* table.                                                                  *)
(***************************************************************************)
C5_RejectsBadInput ==
    (\/ /\ entry = "compute_delays"
        /\ ValidLevels
        /\ ~ValidHalfCycle \/ ~ValidMinPower
     \/ /\ entry = "format_delay_from_percent_array"
        /\ ~ValidHalfCycle) =>
        /\ delays = <<>>
        /\ vals = <<>>
        /\ pc # "done"

C8_Original ==
    (TableReturned /\ ValidLevels /\ ValidMinPower /\ ValidHalfCycle) =>
        /\ Len(delays) = levels
        /\ \A i, j \in 1..Len(delays) : i < j => delays[i] <= delays[j]

\* C8 as amended: the values do not increase as the level increases
C8_Amended ==
    (TableReturned /\ ValidLevels /\ ValidMinPower /\ ValidHalfCycle) =>
        /\ Len(delays) = levels
        /\ \A i, j \in 1..Len(delays) : i < j => delays[i] >= delays[j]

C8_Witness ==
    /\ entry = "compute_delays" /\ pc = "done"
    /\ ValidLevels /\ ValidMinPower /\ ValidHalfCycle
    /\ levels >= 4
    /\ \A i \in 1..(Len(delays) - 1) : delays[i] > delays[i + 1]

(***************************************************************************)
(* C9: the same entry at 10000.0 us (e50) and at 8333.33 us (e60).  The    *)
(* angle of an entry does not depend on the half cycle, so the two are the *)
(* conversions of the same alpha.  1e6/120 is 5/6 of 1e6/100.              *)
(***************************************************************************)
Unclamped(e) == MIN_DELAY_US < e /\ e < MAX_DELAY_US

ScalesByRatio(e50, e60) == Abs(6 * e60 - 5 * e50) <= 6

\* as claimed: an unclamped entry scales, an entry at a bound stays there
PairOriginal(e50, e60) ==
    /\ Unclamped(e50) => ScalesByRatio(e50, e60)
    /\ e50 \in {MIN_DELAY_US, MAX_DELAY_US} => e60 = e50

\* as amended: an entry unclamped at both half cycles scales, an entry at
\* MIN_DELAY_US stays there, an entry at MAX_DELAY_US becomes an unclamped
\* value between 5/6 of MAX_DELAY_US and the half cycle
PairAmended(e50, e60) ==
    /\ (Unclamped(e50) /\ Unclamped(e60)) => ScalesByRatio(e50, e60)
    /\ e50 = MIN_DELAY_US => e60 = MIN_DELAY_US
    /\ e50 = MAX_DELAY_US =>
           /\ Unclamped(e60)
           /\ 6 * e60 >= 5 * MAX_DELAY_US - 6
           /\ e60 <= Round(H60)

\* the pairs of entries: the one being converted, and those main() wrote
C9_Original ==
    /\ (pc = "cd_convert" /\ half_cycle_us = H50) =>
           PairOriginal(LevelDelay(alpha, H50), LevelDelay(alpha, H60))
    /\ (pc = "pt_convert" /\ half_cycle_us = H50) =>
           PairOriginal(PercentDelay(alpha, H50), PercentDelay(alpha, H60))

C9_Amended ==
    /\ (pc = "cd_convert" /\ half_cycle_us = H50) =>
           PairAmended(LevelDelay(alpha, H50), LevelDelay(alpha, H60))
    /\ (pc = "pt_convert" /\ half_cycle_us = H50) =>
           PairAmended(PercentDelay(alpha, H50), PercentDelay(alpha, H60))
    /\ Len(files) >= 3 =>
           /\ \A i \in 1..Len(files[1].delays) :
                  PairAmended(files[1].delays[i], files[3].delays[i])
           /\ \A i \in 1..Len(files[1].percent_array) :
                  PairAmended(files[1].percent_array[i], files[3].percent_array[i])

\* percent entry 0: 9500 at 10000.0 us, 8333 at 8333.33 us
C9_Witness ==
    /\ pc = "pt_convert" /\ half_cycle_us = H50 /\ percent = 0
    /\ PercentDelay(alpha, H50) = MAX_DELAY_US
    /\ PercentDelay(alpha, H60) = 8333

(***************************************************************************)
(* C10: the bracket of alpha_from_P.  For P in [0,1], at every pass of the *)
(* loop head 0 <= lo <= hi <= pi and P_of_alpha(lo) >= P >= P_of_alpha(hi);*)
(* an iteration replaces exactly one of lo, hi by mid = (lo+hi)/2 (lo when *)
(* P_of_alpha(mid) > P, hi otherwise) and halves the width; the loop is    *)
(* left after exactly 50 iterations, returning (lo+hi)/2.                  *)
(***************************************************************************)
BracketInv ==
    (Bisecting /\ PowerInRange) =>
        /\ iter \in 0..50
        /\ Leq(Zero, lo) /\ Leq(lo, hi) /\ Leq(hi, PI)
        /\ Leq(P, P_of_alpha(lo)) /\ Leq(P_of_alpha(hi), P)
        /\ Sub(hi, lo) = HalveN(PI, iter)

IterationRule ==
    (Bisecting /\ PowerInRange /\ pc' = pc) =>
        LET mid == DivInt(Add(lo, hi), 2)
        IN  /\ iter' = iter + 1
            /\ IF Less(P, P_of_alpha(mid))
               THEN lo' = mid /\ hi' = hi
               ELSE hi' = mid /\ lo' = lo
            /\ MulInt(Sub(hi', lo'), 2) = Sub(hi, lo)

ReturnRule ==
    (Bisecting /\ PowerInRange /\ pc' # pc) =>
        /\ iter = 50
        /\ alpha' = DivInt(Add(lo, hi), 2)

C10_Bisection == [](BracketInv) /\ [][IterationRule /\ ReturnRule]_vars

\* the loop is over and both ends of the bracket have moved
C10_Witness ==
    /\ Bisecting /\ PowerInRange
    /\ iter = 50
    /\ Less(Zero, lo) /\ Less(hi, PI)

====
